---------------------------- MODULE Spec2Model ----------------------------
(***************************************************************************)
(* A model of the ReactTable component of src/src/index.tsx.               *)
(*                                                                         *)
(* The file holds two implementations of the component.  The first         *)
(* (lines 107-367) has pagination, an optional global search box and the   *)
(* onFilterChange override; the second (lines 472-657) has none of these   *)
(* and decides column visibility with the `falsy` list.  The variable impl *)
(* says which of the two is mounted.                                       *)
(*                                                                         *)
(* A step of the model is one event of the component together with the     *)
(* effects React runs for it before the next event: a change of the        *)
(* props by the parent, a change of a filter widget, a click on "Clear     *)
(* Filters", a click on a page number.                                     *)
(*                                                                         *)
(* JavaScript values are tagged records, strings are sequences of          *)
(* one-character strings, so String(), toLowerCase(), includes() and the   *)
(* truthiness of a value are computed and not assumed.                     *)
(***************************************************************************)
EXTENDS Integers, Sequences, FiniteSets, TLC

(***************************************************************************)
(* Bounds of the model.                                                    *)
(***************************************************************************)
\* the longest row set the parent passes
MaxRows == 4
\* the largest pageLength the parent configures (besides the default)
MaxPageLength == 2
\* the largest currentPage the parent configures at mount
MaxInitPage == 1

(***************************************************************************)
(* JavaScript values.                                                      *)
(***************************************************************************)
Str(s) == [t |-> "string", s |-> s, n |-> 0, b |-> FALSE]
Num(n) == [t |-> "number", s |-> <<>>, n |-> n, b |-> FALSE]
Bool(b) == [t |-> "boolean", s |-> <<>>, n |-> 0, b |-> b]
Undefined == [t |-> "undefined", s |-> <<>>, n |-> 0, b |-> FALSE]
Null == [t |-> "null", s |-> <<>>, n |-> 0, b |-> FALSE]

\* item[key]: a missing property reads as undefined
Get(item, key) == IF key \in DOMAIN item THEN item[key] ELSE Undefined

Digit(d) ==
    CASE d = 0 -> "0" [] d = 1 -> "1" [] d = 2 -> "2" [] d = 3 -> "3"
      [] d = 4 -> "4" [] d = 5 -> "5" [] d = 6 -> "6" [] d = 7 -> "7"
      [] d = 8 -> "8" [] d = 9 -> "9"

RECURSIVE Digits(_)
Digits(n) == IF n < 10 THEN <<Digit(n)>> ELSE Digits(n \div 10) \o <<Digit(n % 10)>>

\* String(v)
JsString(v) ==
    CASE v.t = "string" -> v.s
      [] v.t = "number" -> IF v.n < 0 THEN <<"-">> \o Digits(-v.n) ELSE Digits(v.n)
      [] v.t = "boolean" -> IF v.b THEN <<"t", "r", "u", "e">>
                                   ELSE <<"f", "a", "l", "s", "e">>
      [] v.t = "undefined" -> <<"u", "n", "d", "e", "f", "i", "n", "e", "d">>
      [] v.t = "null" -> <<"n", "u", "l", "l">>

\* !!v and Boolean(v)
Truthy(v) ==
    CASE v.t = "string" -> v.s # <<>>
      [] v.t = "number" -> v.n # 0
      [] v.t = "boolean" -> v.b
      [] v.t = "undefined" -> FALSE
      [] v.t = "null" -> FALSE

UpperToLower ==
    [A |-> "a", B |-> "b", C |-> "c", D |-> "d", E |-> "e", F |-> "f", G |-> "g",
     H |-> "h", I |-> "i", J |-> "j", K |-> "k", L |-> "l", M |-> "m", N |-> "n",
     O |-> "o", P |-> "p", Q |-> "q", R |-> "r", S |-> "s", T |-> "t", U |-> "u",
     V |-> "v", W |-> "w", X |-> "x", Y |-> "y", Z |-> "z"]

\* s.toLowerCase()
ToLowerCase(s) ==
    [i \in 1..Len(s) |-> IF s[i] \in DOMAIN UpperToLower THEN UpperToLower[s[i]] ELSE s[i]]

\* hay.includes(needle)
Includes(hay, needle) ==
    \E i \in 0..(Len(hay) - Len(needle)) : SubSeq(hay, i + 1, i + Len(needle)) = needle

\* arr.slice(start, end)
JsSlice(arr, start, end) ==
    LET len == Len(arr)
        max(a, b) == IF a > b THEN a ELSE b
        min(a, b) == IF a < b THEN a ELSE b
        k == IF start < 0 THEN max(len + start, 0) ELSE min(start, len)
        final == IF end < 0 THEN max(len + end, 0) ELSE min(end, len)
    IN  IF k < final THEN SubSeq(arr, k + 1, final) ELSE <<>>

\* {}
EmptyObject == [k \in {} |-> Undefined]

\* { ...prev, [key]: value }
Merge(prev, key, value) ==
    [k \in DOMAIN prev \cup {key} |-> IF k = key THEN value ELSE prev[k]]


(***************************************************************************)
(* The props the parent passes: rows, column definitions, filter           *)
(* definitions.                                                            *)
(***************************************************************************)
AllRows ==
    << [id |-> Num(1), name |-> Str(<<"A", "n", "n">>), status |-> Str(<<"o", "n">>),
        active |-> Bool(TRUE), key |-> Str(<<"k", "1">>)],
       [id |-> Num(2), name |-> Str(<<"b", "a", "n">>), status |-> Str(<<"O", "n">>),
        active |-> Num(0), key |-> Num(0)],
       [id |-> Num(3), name |-> Str(<<"B", "o">>), status |-> Str(<<"o", "n">>),
        active |-> Str(<<"y">>)],
       [id |-> Num(4), status |-> Str(<<"o", "f", "f">>), active |-> Str(<<>>),
        key |-> Str(<<"k", "4">>)],
       [id |-> Num(5), name |-> Str(<<"D", "a", "n">>), status |-> Null,
        active |-> Bool(FALSE)],
       [id |-> Num(11), name |-> Str(<<>>), active |-> Num(1)] >>

\* the row sets the parent passes as `data`: the runs of consecutive rows
\* among the first MaxRows rows, the empty row set among them
DataSets ==
    LET n == IF MaxRows < Len(AllRows) THEN MaxRows ELSE Len(AllRows)
    IN  {SubSeq(AllRows, i, j) : i \in 1..(n + 1), j \in 0..n}

Col(key, dataIndex, visible) == [key |-> key, dataIndex |-> dataIndex, visible |-> visible]

ColumnsA ==
    << Col("c1", "id", Bool(FALSE)), Col("c2", "name", Undefined),
       Col("c3", "status", Str(<<"0">>)), Col("c4", "active", Num(0)),
       Col("c5", "name", Str(<<"f", "a", "l", "s", "e">>)), Col("c6", "name", Null) >>

ColumnsB ==
    << Col("c1", "id", Bool(TRUE)), Col("c2", "name", Str(<<>>)),
       Col("c3", "status", Num(1)), Col("c4", "active", Str(<<"1">>)),
       Col("c5", "name", Str(<<"y", "e", "s">>)) >>

ColumnSets == {ColumnsA, ColumnsB}

Flt(type, dataIndex, onFilterChange) ==
    [type |-> type, dataIndex |-> dataIndex, onFilterChange |-> onFilterChange]

\* a select, an input and a toggle
FiltersA ==
    << Flt("select", "status", FALSE), Flt("input", "name", FALSE),
       Flt("toggle", "active", FALSE) >>

\* a select whose definition carries an onFilterChange handler, and an input
FiltersB == << Flt("select", "status", TRUE), Flt("input", "name", FALSE) >>

FilterSets == {FiltersA, FiltersB}

\* the options of the select (filter.data): event.target.value is their text
SelectOptions == {Str(<<"o", "n">>), Str(<<"O", "n">>)}

\* what the user types into a text input: event.target.value
TextInputs == {Str(<<>>), Str(<<"N">>)}

\* event.target.checked of a checkbox
Checked == {Bool(TRUE), Bool(FALSE)}

(***************************************************************************)
(* The filter effect, lines 133-161 and 490-516 (the same code).           *)
(***************************************************************************)
\* getFilters(): filters || []
getFilters(filters) == filters

\* getFilters().filter(item => item.dataIndex === key)[0]; the model's
\* "undefined" is a definition of no type
NoFilter == Flt("undefined", "", FALSE)

FindFilter(filters, key) ==
    LET found == {i \in 1..Len(getFilters(filters)) : getFilters(filters)[i].dataIndex = key}
    IN  IF found = {} THEN NoFilter
        ELSE getFilters(filters)[CHOOSE i \in found : \A j \in found : i <= j]

HasFilter(filters, key) == FindFilter(filters, key) # NoFilter

\* filterData.type after `if (!filterData) filterData = {type: 'globalSearch'}`
FilterType(filters, key) ==
    IF HasFilter(filters, key) THEN FindFilter(filters, key).type ELSE "globalSearch"

\* a select that compares without regard to case
MatchSelectNoCase(item, filter, appliedFilter) ==
    ToLowerCase(JsString(Get(item, filter))) = ToLowerCase(JsString(appliedFilter))

\* case 'select': String(item[filter]) === String(appliedFilter)
MatchSelect(item, filter, appliedFilter) ==
    JsString(Get(item, filter)) = JsString(appliedFilter)

\* case 'input'
MatchInput(item, filter, appliedFilter) ==
    Includes(ToLowerCase(JsString(Get(item, filter))), ToLowerCase(JsString(appliedFilter)))

\* case 'toggle': !!item[filter] === Boolean(appliedFilter)
MatchToggle(item, filter, appliedFilter) ==
    Truthy(Get(item, filter)) = Truthy(appliedFilter)

\* a global search that does not lower-case the applied text
MatchGlobalSearchCaseSensitive(item, appliedFilter) ==
    \E key \in DOMAIN item :
        Includes(ToLowerCase(JsString(item[key])), JsString(appliedFilter))

\* default: Object.keys(item).some(key => String(item[key]).toLowerCase()
\*            .includes(String(appliedFilter.toLowerCase())))
\* appliedFilter is a string here: only the global search input, a text
\* input, applies a key that has no definition
MatchGlobalSearch(item, appliedFilter) ==
    \E key \in DOMAIN item :
        Includes(ToLowerCase(JsString(item[key])), JsString(Str(ToLowerCase(appliedFilter.s))))

\* the switch on String(filterData.type)
MatchFilter(item, filters, filter, appliedFilter) ==
    LET type == FilterType(filters, filter)
    IN  CASE type = "select" -> MatchSelect(item, filter, appliedFilter)
          [] type = "input" -> MatchInput(item, filter, appliedFilter)
          [] type = "toggle" -> MatchToggle(item, filter, appliedFilter)
          [] OTHER -> MatchGlobalSearch(item, appliedFilter)

\* a row that passes when the filter of some applied key matches
RowPassesSome(item, filters, applied) ==
    DOMAIN applied = {}
    \/ \E filter \in DOMAIN applied : MatchFilter(item, filters, filter, applied[filter])

\* Object.keys(appliedFilters).every(filter => ...)
RowPasses(item, filters, applied) ==
    \A filter \in DOMAIN applied : MatchFilter(item, filters, filter, applied[filter])

\* data.filter(item => ...)
FilterData(rows, filters, applied) ==
    SelectSeq(rows, LAMBDA item : RowPasses(item, filters, applied))


(***************************************************************************)
(* The component.                                                          *)
(***************************************************************************)
VARIABLES
    impl,              \* 1: the component of lines 107-367, 2: that of lines 472-657
    data,              \* prop data
    columns,           \* prop columns
    filters,           \* prop filters
    showGlobalSearch,  \* prop showGlobalSearch (first implementation)
    pagination,        \* prop pagination (first implementation)
    rowKey,            \* prop rowKey; "" when the parent passes none
    renderData,        \* state renderData (localData in the second implementation)
    localColumns,      \* state localColumns
    appliedFilters,    \* state appliedFilters
    filterValues,      \* state filterValues (first implementation)
    pageData,          \* state pageData (first implementation)
    mounted,           \* FALSE when the first render threw
    lastOp             \* the last event handled and how its handler ended

vars ==
    << impl, data, columns, filters, showGlobalSearch, pagination, rowKey, renderData,
       localColumns, appliedFilters, filterValues, pageData, mounted, lastOp >>

props == << impl, data, columns, filters, showGlobalSearch, pagination, rowKey >>

\* the second implementation has no pagination
NoPagination == [currentPage |-> 0, pageLength |-> 0]

\* the values of the prop pagination
Paginations ==
    {[currentPage |-> p, pageLength |-> l] : p \in 1..MaxInitPage, l \in 1..MaxPageLength}

Op(op, key, value, outcome) == [op |-> op, key |-> key, value |-> value, outcome |-> outcome]

\* rendering a toggle filter in the first implementation reads the variables
\* item and column, which nothing declares: a ReferenceError
RenderThrows(i, f) == i = 1 /\ \E n \in 1..Len(f) : f[n].type = "toggle"

\* the prop rowKey not passed (undefined), or passed as the empty string:
\* both are falsy
NoRowKey == ""

\* the values of the prop rowKey: none, a field every row has, a field some
\* rows lack
RowKeys == {NoRowKey, "id", "name"}

\* the state after the first render and its two effects: setData(data),
\* setColumns(columns), then setData(data.filter(...)) under no applied filter
Mount ==
    /\ impl \in {1, 2}
    /\ data \in DataSets
    /\ columns \in ColumnSets
    /\ filters \in FilterSets
    /\ showGlobalSearch \in IF impl = 1 THEN BOOLEAN ELSE {TRUE}
    /\ pagination \in IF impl = 1 THEN Paginations ELSE {NoPagination}
    /\ mounted = ~RenderThrows(impl, filters)
    /\ appliedFilters = EmptyObject
    /\ filterValues = EmptyObject
    /\ pageData = pagination
    /\ renderData = IF mounted THEN FilterData(data, filters, appliedFilters) ELSE <<>>
    /\ localColumns = IF mounted THEN columns ELSE <<>>
    /\ lastOp = Op("mount", "", Undefined, IF mounted THEN "" ELSE "ReferenceError")

\* a component whose parent passes no rowKey
Init == rowKey = NoRowKey /\ Mount

\* a component whose parent passes any of the row keys, one set of column
\* definitions and one set of filter definitions
InitRowKey ==
    /\ rowKey \in RowKeys
    /\ columns = ColumnsA
    /\ filters = FiltersB
    /\ Mount

\* The parent renders the component with a new data array (and the same
\* column definitions).  First implementation: the effect of lines 128-131
\* runs, the filter effect, whose dependency is appliedFilters alone, does
\* not.  Second implementation: the effect of lines 485-488 ran at mount only.
ReceiveProps(newData) ==
    /\ mounted
    /\ data' = newData
    /\ IF impl = 1
         THEN renderData' = newData /\ localColumns' = columns
         ELSE UNCHANGED << renderData, localColumns >>
    /\ lastOp' = Op("receiveProps", "", Undefined, "")
    /\ UNCHANGED << impl, columns, filters, showGlobalSearch, pagination, rowKey,
                    appliedFilters, filterValues, pageData, mounted >>

\* the value a filter widget shows: filterValues in the first implementation,
\* appliedFilters in the second
Shown(key) == Get(IF impl = 1 THEN filterValues ELSE appliedFilters, key)

\* the calls of handleFilterChange the rendered widgets can make:
\* <<filterValue, key>>
WidgetEvents ==
    LET fs == getFilters(filters)
    IN  UNION {
            CASE fs[n].type = "select" -> {<<v, fs[n].dataIndex>> : v \in SelectOptions}
              [] fs[n].type = "input" -> {<<v, fs[n].dataIndex>> : v \in TextInputs}
              [] fs[n].type = "toggle" ->
                    {<<Bool(~Truthy(Shown(fs[n].dataIndex))), fs[n].dataIndex>>}
              [] OTHER -> {}
            : n \in 1..Len(fs)}
        \cup IF showGlobalSearch THEN {<<v, "globalSearch">> : v \in TextInputs} ELSE {}

\* handleFilterChange of the first implementation, lines 163-179, and the
\* filter effect its setAppliedFilters triggers
HandleFilterChangeFirst(filterValue, key) ==
    /\ filterValues' = Merge(filterValues, key, filterValue)
    /\ IF ~HasFilter(filters, key)
         THEN \* filterData is undefined: filterData.onFilterChange throws
              /\ lastOp' = Op("handleFilterChange", key, filterValue, "TypeError")
              /\ UNCHANGED << appliedFilters, renderData >>
         ELSE IF FindFilter(filters, key).onFilterChange
         THEN /\ lastOp' = Op("handleFilterChange", key, filterValue, "onFilterChange")
              /\ UNCHANGED << appliedFilters, renderData >>
         ELSE /\ appliedFilters' = Merge(appliedFilters, key, filterValue)
              /\ renderData' = FilterData(data, filters, appliedFilters')
              /\ lastOp' = Op("handleFilterChange", key, filterValue, "applied")

\* handleFilterChange of the second implementation, lines 518-522, and the
\* filter effect
HandleFilterChangeSecond(filterValue, key) ==
    /\ appliedFilters' = Merge(appliedFilters, key, filterValue)
    /\ renderData' = FilterData(data, filters, appliedFilters')
    /\ lastOp' = Op("handleFilterChange", key, filterValue, "applied")
    /\ UNCHANGED filterValues

HandleFilterChange(filterValue, key) ==
    /\ mounted
    /\ <<filterValue, key>> \in WidgetEvents
    /\ IF impl = 1 THEN HandleFilterChangeFirst(filterValue, key)
                   ELSE HandleFilterChangeSecond(filterValue, key)
    /\ UNCHANGED << props, localColumns, pageData, mounted >>

\* clearFilters, lines 194-197 and 530-532, and the filter effect
ClearFilters ==
    /\ mounted
    /\ appliedFilters' = EmptyObject
    /\ filterValues' = EmptyObject
    /\ renderData' = FilterData(data, filters, appliedFilters')
    /\ lastOp' = Op("clearFilters", "", Undefined, "")
    /\ UNCHANGED << props, localColumns, pageData, mounted >>

\* a page count that counts a trailing partial page
PageCountCeiling(length, pageLength) == (length + pageLength - 1) \div pageLength

\* Math.floor(renderData.length / pagination.pageLength), line 357
PageCount(length, pageLength) == length \div pageLength

\* renderData.length > pagination.pageLength, line 353
ShowPagination == mounted /\ impl = 1 /\ Len(renderData) > pagination.pageLength

\* the page numbers of the spans of lines 357-359
PageNumbers ==
    IF ShowPagination
    THEN {pageNumber + 1 :
            pageNumber \in 0..(PageCount(Len(renderData), pagination.pageLength) - 1)}
    ELSE {}

\* setPageNumber, lines 220-227, called by a click on a page number
SetPageNumber(page) ==
    /\ page \in PageNumbers
    /\ pageData' = [pageData EXCEPT !.currentPage = page]
    /\ lastOp' = Op("setPageNumber", "", Undefined, "")
    /\ UNCHANGED << props, renderData, localColumns, appliedFilters, filterValues, mounted >>

\* a slice that takes currentPage as zero-based
PaginatedDataFromPage(rows, page) ==
    JsSlice(rows, page.currentPage * page.pageLength, page.pageLength * (page.currentPage + 1))

\* paginatedData, line 212
PaginatedDataOf(rows, page) ==
    JsSlice(rows, (page.currentPage - 1) * page.pageLength, page.pageLength * page.currentPage)

PaginatedData == PaginatedDataOf(renderData, pageData)

\* the rows of the table body: paginatedData, line 333; localData, line 636
BodyRows == IF impl = 1 THEN PaginatedData ELSE renderData

\* column.visible !== false, lines 324 and 338
VisibleFirst(column) == column.visible # Bool(FALSE)

\* const falsy = [false, '0', 'false', 0], line 470
falsy == {Bool(FALSE), Str(<<"0">>), Str(<<"f", "a", "l", "s", "e">>), Num(0)}

\* !falsy.includes(column.visible), lines 627 and 641
VisibleSecond(column) == column.visible \notin falsy

IsVisible(column) == IF impl = 1 THEN VisibleFirst(column) ELSE VisibleSecond(column)

\* the columns that get a cell in the header and in every row
RenderedColumns == SelectSeq(localColumns, LAMBDA column : IsVisible(column))

\* the values and the keys of the calls of handleFilterChange
WidgetValues == SelectOptions \cup TextInputs \cup Checked

WidgetKeys == {"status", "name", "active", "globalSearch"}

Next ==
    \/ \E newData \in DataSets : ReceiveProps(newData)
    \/ \E filterValue \in WidgetValues, key \in WidgetKeys :
            HandleFilterChange(filterValue, key)
    \/ ClearFilters
    \/ \E page \in 1..(MaxRows + 2) : SetPageNumber(page)

Spec == Init /\ [][Next]_vars

\* the events of a component whose parent never passes new props
NextFixedProps ==
    \/ \E filterValue \in WidgetValues, key \in WidgetKeys :
            HandleFilterChange(filterValue, key)
    \/ ClearFilters
    \/ \E page \in 1..(MaxRows + 2) : SetPageNumber(page)

SpecFixedProps == Init /\ [][NextFixedProps]_vars

SpecRowKey == InitRowKey /\ [][Next]_vars

\* getRowKey with the fall-back to item['key'] when the row lacks the field
\* rowKey
getRowKeyFallingBack(item) ==
    IF rowKey # NoRowKey /\ rowKey \in DOMAIN item THEN item[rowKey]
    ELSE IF Truthy(Get(item, "key")) THEN Get(item, "key") ELSE Null

\* getRowKey, lines 192 and 526-528:
\* rowKey ? item[rowKey] : item['key'] ? item['key'] : null
getRowKey(item) ==
    IF rowKey # NoRowKey THEN Get(item, rowKey)
    ELSE IF Truthy(Get(item, "key")) THEN Get(item, "key") ELSE Null

\* getRowKey(item) of the rows of the table body, lines 335 and 638
BodyRowKeys == [index \in 1..Len(BodyRows) |-> getRowKey(BodyRows[index])]


(***************************************************************************)
(* Properties.                                                             *)
(***************************************************************************)
\* the filter effect was the last to write renderData, with the data and
\* the applied filters of this state
FilterEffectRan ==
    /\ mounted
    /\ \/ lastOp.op = "mount"
       \/ lastOp.op = "clearFilters"
       \/ lastOp.op = "handleFilterChange" /\ lastOp.outcome = "applied"

\* the rows of the source row set that are among the filtered rows
Kept(row) == \E j \in 1..Len(renderData) : renderData[j] = row

\* the positions of the source rows that match the filter of every applied key
MatchingPositions ==
    {i \in 1..Len(data) :
        \A key \in DOMAIN appliedFilters :
            MatchFilter(data[i], filters, key, appliedFilters[key])}

\* the j-th smallest member of a set of positions
Nth(positions, j) ==
    CHOOSE i \in positions : Cardinality({m \in positions : m < i}) = j - 1

\* C1: the filter effect leaves exactly the rows that match the filter of
\* every applied key, in their order in the source; with no applied filter
\* it leaves all of them
ApplyKeepsRowsMatchingEveryFilter ==
    FilterEffectRan =>
        /\ Len(renderData) = Cardinality(MatchingPositions)
        /\ \A j \in 1..Len(renderData) : renderData[j] = data[Nth(MatchingPositions, j)]
        /\ (DOMAIN appliedFilters = {} => renderData = data)

\* C1: two filters are applied, a row is kept, and a row that matches one of
\* the two filters but not the other is dropped
ApplyWitness ==
    /\ FilterEffectRan
    /\ lastOp.op = "handleFilterChange"
    /\ Cardinality(DOMAIN appliedFilters) = 2
    /\ renderData # <<>>
    /\ \E i \in 1..Len(data) :
          /\ ~Kept(data[i])
          /\ \E key \in DOMAIN appliedFilters :
                MatchFilter(data[i], filters, key, appliedFilters[key])

\* the match rule of a definition's type, in the words of the claim
RuleOfType(type, field, value) ==
    CASE type = "select" -> JsString(field) = JsString(value)
      [] type = "input" ->
            \E i \in 0..Len(JsString(field)) :
                /\ i + Len(JsString(value)) <= Len(JsString(field))
                /\ \A n \in 1..Len(JsString(value)) :
                      ToLowerCase(JsString(field))[i + n] = ToLowerCase(JsString(value))[n]
      [] type = "toggle" -> IF Truthy(value) THEN Truthy(field) ELSE ~Truthy(field)

DefinedTypes == {"select", "input", "toggle"}

\* C2: for an applied key that has a definition of type select, input or
\* toggle, every filtered row satisfies the rule of that type, and when the
\* key is the only applied one the filtered rows are exactly the source rows
\* that satisfy it
MatchRuleChosenByType ==
    FilterEffectRan =>
        \A key \in DOMAIN appliedFilters :
            (HasFilter(filters, key) /\ FindFilter(filters, key).type \in DefinedTypes) =>
                LET type == FindFilter(filters, key).type
                    value == appliedFilters[key]
                IN  /\ \A j \in 1..Len(renderData) :
                          RuleOfType(type, Get(renderData[j], key), value)
                    /\ DOMAIN appliedFilters = {key} =>
                          \A i \in 1..Len(data) :
                              Kept(data[i]) <=> RuleOfType(type, Get(data[i], key), value)

\* C2: a toggle is applied with the value false; a row whose field is falsy is
\* kept and a row whose field is truthy is dropped
MatchRuleWitness ==
    /\ FilterEffectRan
    /\ DOMAIN appliedFilters = {"active"}
    /\ FindFilter(filters, "active").type = "toggle"
    /\ appliedFilters["active"] = Bool(FALSE)
    /\ renderData # <<>>
    /\ \E i \in 1..Len(data) : Truthy(Get(data[i], "active")) /\ ~Kept(data[i])

\* C3: the filtered rows are the source rows filtered under the applied
\* filters, whatever the events so far
FilteredRowsFollowSourceAndFilters ==
    mounted => renderData = FilterData(data, filters, appliedFilters)

\* C4: a change of a filter widget never ends in an error, and a key that has
\* no definition is applied as a global search
FilterChangeNeverFails ==
    (mounted /\ lastOp.op = "handleFilterChange") =>
        /\ lastOp.outcome # "TypeError"
        /\ ~HasFilter(filters, lastOp.key) =>
              /\ lastOp.key \in DOMAIN appliedFilters
              /\ renderData = FilterData(data, filters, appliedFilters)

\* a field of the row, as a lower-cased string, contains the lower-cased text
FieldContains(row, field, text) ==
    Includes(ToLowerCase(JsString(row[field])), ToLowerCase(text.s))

\* C5: for an applied key that has no definition, every filtered row has a
\* field that contains the applied text, and when the key is the only
\* applied one the filtered rows are exactly the source rows with such a
\* field
UndefinedKeyIsGlobalSearch ==
    FilterEffectRan =>
        \A key \in DOMAIN appliedFilters :
            ~HasFilter(filters, key) =>
                /\ \A j \in 1..Len(renderData) :
                      \E field \in DOMAIN renderData[j] :
                          FieldContains(renderData[j], field, appliedFilters[key])
                /\ DOMAIN appliedFilters = {key} =>
                      \A i \in 1..Len(data) :
                          Kept(data[i]) <=>
                              \E field \in DOMAIN data[i] :
                                  FieldContains(data[i], field, appliedFilters[key])

\* C5: a global search is the only applied filter, a row is dropped, and a
\* row is kept whose only fields that contain the text have no visible column
GlobalSearchWitness ==
    /\ FilterEffectRan
    /\ DOMAIN appliedFilters = {"globalSearch"}
    /\ ~HasFilter(filters, "globalSearch")
    /\ Len(renderData) < Len(data)
    /\ \E j \in 1..Len(renderData) :
          \A field \in DOMAIN renderData[j] :
              FieldContains(renderData[j], field, appliedFilters["globalSearch"]) =>
                  \A n \in 1..Len(localColumns) :
                      localColumns[n].dataIndex = field => ~IsVisible(localColumns[n])

\* the definition of the key carries an onFilterChange handler (the Filter
\* of the second implementation has no such property)
Overridden(key) ==
    impl = 1 /\ HasFilter(filters, key) /\ FindFilter(filters, key).onFilterChange

\* C6: a change of a filter widget maps the key to the value in the applied
\* filters and leaves every other key as it was, or, when the definition of
\* the key carries an onFilterChange handler, leaves the applied filters as
\* they were
FilterChangeMergesOrDefers ==
    [][\A filterValue \in WidgetValues, key \in WidgetKeys :
          HandleFilterChange(filterValue, key) =>
              IF Overridden(key)
              THEN appliedFilters' = appliedFilters
              ELSE /\ DOMAIN appliedFilters' = DOMAIN appliedFilters \cup {key}
                   /\ appliedFilters'[key] = filterValue
                   /\ \A other \in DOMAIN appliedFilters \ {key} :
                         appliedFilters'[other] = appliedFilters[other]]_vars

Min(a, b) == IF a < b THEN a ELSE b

\* C7: the rows of the page are the filtered rows at the zero-indexed
\* positions from (currentPage - 1) * pageLength up to, not including,
\* currentPage * pageLength, as far as there are rows; a page past the last
\* row is empty
SliceIsThePageWindow ==
    (mounted /\ impl = 1) =>
        LET from == (pageData.currentPage - 1) * pageData.pageLength
            to == Min(pageData.currentPage * pageData.pageLength, Len(renderData))
        IN  /\ BodyRows = PaginatedData
            /\ Len(PaginatedData) = IF to > from THEN to - from ELSE 0
            /\ \A j \in 1..Len(PaginatedData) : PaginatedData[j] = renderData[from + j]
            /\ from >= Len(renderData) => PaginatedData = <<>>

\* C7: a page number was clicked, a filter then left fewer rows, and the
\* current page lies past the last filtered row
SliceWitness ==
    /\ mounted /\ impl = 1
    /\ pageData.currentPage > 1
    /\ pageData.currentPage # pagination.currentPage
    /\ renderData # <<>>
    /\ (pageData.currentPage - 1) * pageData.pageLength >= Len(renderData)
    /\ PaginatedData = <<>>

\* C8: the page numbers of the pagination controls are 1..pageCount, where
\* pageCount is the floor of the number of filtered rows over pageLength;
\* 125 rows in pages of 50 give 2
PageCountIsTheFloor ==
    /\ PageCount(125, 50) = 2
    /\ ShowPagination =>
          LET pageCount == Cardinality(PageNumbers)
          IN  /\ PageNumbers = 1..pageCount
              /\ pageCount * pagination.pageLength <= Len(renderData)
              /\ Len(renderData) < (pageCount + 1) * pagination.pageLength

\* C8: a filter dropped rows, the controls are shown and the last page is a
\* partial one
PageCountWitness ==
    /\ ShowPagination
    /\ FilterEffectRan /\ Len(renderData) < Len(data)
    /\ Len(renderData) % pagination.pageLength # 0
    /\ pagination.pageLength > 1

\* C9: the pagination controls are shown iff there are more filtered rows
\* than pageLength, and when there are not, the rows shown are all the
\* filtered rows
ControlsIffMoreThanAPage ==
    (mounted /\ impl = 1) =>
        /\ ShowPagination <=> Len(renderData) > pageData.pageLength
        /\ Len(renderData) <= pageData.pageLength => BodyRows = renderData

\* C10: a column is left out of the header and of every row iff its visible
\* is false, "0", "false" or 0
HiddenIffInFalsySet ==
    mounted =>
        \A n \in 1..Len(localColumns) :
            (\E m \in 1..Len(RenderedColumns) : RenderedColumns[m] = localColumns[n])
                <=> localColumns[n].visible \notin
                        {Bool(FALSE), Str(<<"0">>), Str(<<"f", "a", "l", "s", "e">>), Num(0)}

\* C11 as claimed: the key of a row is its field rowKey when rowKey is
\* configured and the row has that field, else its field key when the row
\* has one, else null
RowKeyFallsBackToKey ==
    mounted =>
        \A index \in 1..Len(BodyRows) :
            LET row == BodyRows[index]
            IN  BodyRowKeys[index] =
                    IF rowKey # NoRowKey /\ rowKey \in DOMAIN row THEN row[rowKey]
                    ELSE IF "key" \in DOMAIN row THEN row["key"]
                    ELSE Null

\* C11 as amended: with rowKey configured the key of a row is its field
\* rowKey, undefined when the row lacks it; with no rowKey it is the field
\* key when that is truthy and null otherwise
RowKeyIsFieldOrTruthyKey ==
    mounted =>
        \A index \in 1..Len(BodyRows) :
            LET row == BodyRows[index]
            IN  /\ (rowKey # NoRowKey /\ rowKey \in DOMAIN row) =>
                      BodyRowKeys[index] = row[rowKey]
                /\ (rowKey # NoRowKey /\ rowKey \notin DOMAIN row) =>
                      BodyRowKeys[index] = Undefined
                /\ (rowKey = NoRowKey /\ "key" \in DOMAIN row /\ Truthy(row["key"])) =>
                      BodyRowKeys[index] = row["key"]
                /\ (rowKey = NoRowKey /\ ("key" \notin DOMAIN row \/ ~Truthy(Get(row, "key")))) =>
                      BodyRowKeys[index] = Null

\* C11: rowKey is configured, a filter was applied, and a row of the table
\* body lacks the field rowKey but has a key
RowKeyWitness ==
    /\ mounted
    /\ rowKey # NoRowKey
    /\ lastOp.op = "handleFilterChange" /\ lastOp.outcome = "applied"
    /\ \E index \in 1..Len(BodyRows) :
          /\ rowKey \notin DOMAIN BodyRows[index]
          /\ "key" \in DOMAIN BodyRows[index]
          /\ BodyRowKeys[index] = Undefined

=============================================================================
